---- MODULE Spec2Model ----
(***************************************************************************)
(* Model of the command interpreter of stataconda (src/main.py): the      *)
(* lexical helpers _strip_stata_comments, _split_command_options and      *)
(* _parse_options, the command registry, and StatacondaGUI.execute_command.*)
(* Python strings are TLA+ strings; s[i] is SubSeq(s, i+1, i+1).           *)
(***************************************************************************)
EXTENDS Integers, Sequences, FiniteSets, TLC

VARIABLES
    results_window,    \* texts appended to self.results_window, in order
    command_history,   \* self.command_history
    history_list,      \* items of self.history_list
    _df,               \* self._df, the active dataset
    _python_context,   \* self._python_context, the persistent scripting context
    _stored_estimates, \* self._stored_estimates
    _data_browser,     \* self._data_browser, set by open_data_browser
    _lastreg,          \* self._lastreg, the last fitted results (None: no attribute)
    figure,            \* the series of the last figure drawn: <<label, model>>
    cwd,               \* the process working directory (os.getcwd())
    dispatch_log,      \* per logical command: the route execute_command took
    history_index,     \* self.history_index
    command_prompt,    \* the text of self.command_prompt
    fn,                \* the lexical helper under call ("" when none)
    arg,               \* its argument
    ret                \* its return value

vars == <<results_window, command_history, history_list, _df, _python_context,
          _stored_estimates, _data_browser, _lastreg, figure, cwd, dispatch_log,
          history_index, command_prompt, fn, arg, ret>>

session_vars == <<results_window, command_history, history_list, _df,
                  _python_context, _stored_estimates, _data_browser, _lastreg,
                  figure, cwd, dispatch_log, history_index, command_prompt>>

(***************************************************************************)
(* Bounds of the model.                                                    *)
(***************************************************************************)
MaxOptLen == 5      \* longest option clause given to _parse_options
MaxSplitLen == 5    \* longest command given to _split_command_options
MaxStripLen == 6    \* longest command given to _strip_stata_comments
MaxSubmits == 2     \* number of execute_command calls in one session
MaxJoinLen == 5     \* longest prompt text given to the continuation joining
MaxBlockLen == 3    \* number of lines in one submitted block
MaxHistory == 3     \* number of history entries when the keys are pressed
MaxDoLines == 2     \* number of lines in a do-file
MaxEstSubmits == 4  \* number of estimation and eststo commands in one session

(***************************************************************************)
(* Python values.                                                          *)
(***************************************************************************)
PyNone == <<"None">>
PyTrue == <<"True">>
PyStr(s) == <<"str", s>>
IsPyStr(v) == Len(v) = 2 /\ v[1] = "str"

(***************************************************************************)
(* Python str operations.                                                  *)
(***************************************************************************)
At(s, i) == SubSeq(s, i, i)

Whitespace == {" ", "\t", "\n", "\r"}

UpperCase == "ABCDEFGHIJKLMNOPQRSTUVWXYZ"
LowerCase == "abcdefghijklmnopqrstuvwxyz"

LowerChar(c) ==
    IF \E k \in 1..26 : At(UpperCase, k) = c
    THEN At(LowerCase, CHOOSE k \in 1..26 : At(UpperCase, k) = c)
    ELSE c

RECURSIVE Lower(_)
Lower(s) ==
    IF s = "" THEN "" ELSE LowerChar(At(s, 1)) \o Lower(SubSeq(s, 2, Len(s)))

RECURSIVE LStrip(_)
LStrip(s) ==
    IF s # "" /\ At(s, 1) \in Whitespace THEN LStrip(SubSeq(s, 2, Len(s))) ELSE s

RECURSIVE RStrip(_)
RStrip(s) ==
    IF s # "" /\ At(s, Len(s)) \in Whitespace
    THEN RStrip(SubSeq(s, 1, Len(s) - 1)) ELSE s

Strip(s) == RStrip(LStrip(s))

StartsWith(s, p) == Len(s) >= Len(p) /\ SubSeq(s, 1, Len(p)) = p

EndsWith(s, p) == Len(s) >= Len(p) /\ SubSeq(s, Len(s) - Len(p) + 1, Len(s)) = p

Contains(s, p) == \E i \in 1..(Len(s) - Len(p) + 1) : SubSeq(s, i, i + Len(p) - 1) = p

\* s.split(sep) for a one-character separator: the pieces, empty ones kept
RECURSIVE SplitOn(_, _)
SplitOn(s, sep) ==
    IF ~Contains(s, sep) THEN <<s>>
    ELSE LET i == CHOOSE k \in 1..Len(s) :
                    At(s, k) = sep /\ \A j \in 1..(k - 1) : At(s, j) # sep
         IN  <<SubSeq(s, 1, i - 1)>> \o SplitOn(SubSeq(s, i + 1, Len(s)), sep)

\* s.split(): maximal runs of non-whitespace characters
RECURSIVE SplitWs(_)
SplitWs(s) ==
    LET t == LStrip(s) IN
    IF t = "" THEN <<>>
    ELSE LET n == IF \E k \in 1..Len(t) : At(t, k) \in Whitespace
                  THEN (CHOOSE k \in 1..Len(t) :
                            At(t, k) \in Whitespace
                            /\ \A j \in 1..(k - 1) : At(t, j) \notin Whitespace) - 1
                  ELSE Len(t)
         IN  <<SubSeq(t, 1, n)>> \o SplitWs(SubSeq(t, n + 1, Len(t)))

\* sep.join(parts)
RECURSIVE JoinWith(_, _)
JoinWith(parts, sep) ==
    IF parts = <<>> THEN ""
    ELSE IF Len(parts) = 1 THEN parts[1]
    ELSE parts[1] \o sep \o JoinWith(Tail(parts), sep)

(***************************************************************************)
(* _strip_stata_comments (src/main.py 3079-3098).                          *)
(***************************************************************************)
\* the while loop of lines 3088-3097, from 1-based position i
RECURSIVE StripLoop(_, _, _, _)
StripLoop(command, i, in_quotes, result) ==
    IF i > Len(command) THEN result
    ELSE IF At(command, i) = "\""
         THEN StripLoop(command, i + 1, ~in_quotes, result \o At(command, i))
    ELSE IF ~in_quotes /\ SubSeq(command, i, IF i + 1 <= Len(command) THEN i + 1 ELSE i) = "//"
         THEN result
    ELSE StripLoop(command, i + 1, in_quotes, result \o At(command, i))

\* variant: the marker is honoured inside double quotes too
StripIgnoringQuotes(command) ==
    IF StartsWith(Strip(command), "*") \/ StartsWith(Strip(command), "//")
    THEN ""
    ELSE IF Contains(command, "//")
         THEN Strip(SubSeq(command, 1,
                  (CHOOSE i \in 1..(Len(command) - 1) :
                      /\ SubSeq(command, i, i + 1) = "//"
                      /\ \A j \in 1..(i - 1) : SubSeq(command, j, j + 1) # "//") - 1))
         ELSE Strip(command)

_strip_stata_comments(command) ==
    IF StartsWith(Strip(command), "*") \/ StartsWith(Strip(command), "//")
    THEN ""
    ELSE Strip(StripLoop(command, 1, FALSE, ""))

(***************************************************************************)
(* _split_command_options (src/main.py 1261-1279).                         *)
(***************************************************************************)
\* the for loop of lines 1268-1278, from 1-based position i
RECURSIVE SplitLoop(_, _, _, _)
SplitLoop(command, i, depth, in_quotes) ==
    IF i > Len(command) THEN <<Strip(command), "">>
    ELSE LET c  == At(command, i)
             q  == IF c = "\"" THEN ~in_quotes ELSE in_quotes
             d  == IF c = "\"" THEN depth
                   ELSE IF c = "(" /\ ~in_quotes THEN depth + 1
                   ELSE IF c = ")" /\ ~in_quotes THEN depth - 1
                   ELSE depth
         IN  IF c = "," /\ d = 0 /\ ~q
             THEN <<Strip(SubSeq(command, 1, i - 1)),
                    Strip(SubSeq(command, i + 1, Len(command)))>>
             ELSE SplitLoop(command, i + 1, d, q)

\* variant: the cut is made at the first comma wherever it stands
SplitAtAnyComma(command) ==
    IF ~Contains(command, ",") THEN <<Strip(command), "">>
    ELSE LET i == CHOOSE k \in 1..Len(command) :
                    At(command, k) = "," /\ \A j \in 1..(k - 1) : At(command, j) # ","
         IN  <<Strip(SubSeq(command, 1, i - 1)), Strip(SubSeq(command, i + 1, Len(command)))>>

_split_command_options(command) ==
    IF ~Contains(command, ",") THEN <<Strip(command), "">>
    ELSE SplitLoop(command, 1, 0, FALSE)

(***************************************************************************)
(* _parse_options (src/main.py 1201-1259).  A dict is a function from      *)
(* Python keys to Python values; d[k] = v is (k :> v) @@ d.               *)
(***************************************************************************)
EmptyDict == <<>>

DictSet(d, k, v) == (k :> v) @@ d

\* one iteration of the for loop of lines 1219-1250 on character c
ParseStep(st, c) ==
    IF c = "\"" THEN
        [st EXCEPT !.in_quotes = ~st.in_quotes, !.current = st.current \o c]
    ELSE IF c = "(" /\ ~st.in_quotes THEN
        IF st.depth = 0
        THEN [st EXCEPT !.current_option = PyStr(Lower(Strip(st.current))),
                        !.current = "",
                        !.depth = st.depth + 1]
        ELSE [st EXCEPT !.depth = st.depth + 1]
    ELSE IF c = ")" /\ ~st.in_quotes THEN
        IF st.depth - 1 = 0
        THEN [st EXCEPT !.depth = 0,
                        !.options = DictSet(st.options, st.current_option, PyStr(st.current)),
                        !.current_option = PyNone,
                        !.current = ""]
        ELSE [st EXCEPT !.depth = st.depth - 1, !.current = st.current \o c]
    ELSE IF c = " " /\ st.depth = 0 /\ ~st.in_quotes THEN
        IF st.current # ""
        THEN [st EXCEPT !.options =
                            IF st.current_option = PyNone
                            THEN DictSet(st.options, PyStr(Lower(st.current)), PyTrue)
                            ELSE DictSet(st.options, st.current_option, PyStr(st.current)),
                        !.current_option = PyNone,
                        !.current = ""]
        ELSE st
    ELSE [st EXCEPT !.current = st.current \o c]

RECURSIVE ParseLoop(_, _, _)
ParseLoop(options_str, i, st) ==
    IF i > Len(options_str) THEN st
    ELSE ParseLoop(options_str, i + 1, ParseStep(st, At(options_str, i)))

\* the parser's locals when the for loop ends
ParseEnd(options_str) ==
    ParseLoop(options_str, 1,
              [options |-> EmptyDict, current |-> "", depth |-> 0,
               in_quotes |-> FALSE, current_option |-> PyNone])

_parse_options(options_str) ==
    IF options_str = "" THEN EmptyDict
    ELSE LET st == ParseEnd(options_str) IN
         IF st.current # ""
         THEN IF st.current_option = PyNone
              THEN DictSet(st.options, PyStr(Lower(st.current)), PyTrue)
              ELSE DictSet(st.options, st.current_option, PyStr(st.current))
         ELSE st.options

(***************************************************************************)
(* The session after StatacondaGUI.__init__ (src/main.py 247-631).         *)
(***************************************************************************)
InitialColumns == {"x", "y"}

\* the dataset loaded at line 255, as one table object: id tells two objects
\* apart, index holds the <<name, value>> levels of a set index (<<>> for the
\* default RangeIndex), cells the value held in each column
InitialTable ==
    [id |-> 0, columns |-> InitialColumns, index |-> <<>>,
     cells |-> [c \in InitialColumns |-> 1]]

SessionInit ==
    /\ results_window = <<>>
    /\ command_history = <<>>
    /\ history_list = <<>>
    /\ _df = InitialTable
    /\ _python_context = [_df |-> InitialTable]
    /\ _stored_estimates = [estimates |-> EmptyDict, current_name |-> PyNone]
    /\ _data_browser = PyNone
    /\ _lastreg = PyNone
    /\ figure = <<>>
    /\ cwd = "/"
    /\ dispatch_log = <<>>
    /\ history_index = -1
    /\ command_prompt = ""

(***************************************************************************)
(* Calls of the lexical helpers on every string of a bounded alphabet.     *)
(* ret is <<>> before the call and <<outcome>> after it; an outcome is     *)
(* [raised, value].                                                        *)
(***************************************************************************)
RECURSIVE Strings(_, _)
Strings(alphabet, n) ==
    IF n = 0 THEN {""}
    ELSE LET S == Strings(alphabet, n - 1)
         IN  S \cup {s \o c : s \in S, c \in alphabet}

Returned(value) == <<[raised |-> FALSE, value |-> value]>>

OptAlphabet == {"a", "B", " ", "(", ")", "\""}
SplitAlphabet == {"a", " ", ",", "(", ")", "\""}
StripAlphabet == {"a", " ", "\"", "/", "*"}

InitParse ==
    /\ SessionInit
    /\ fn = "_parse_options"
    /\ arg \in Strings(OptAlphabet, MaxOptLen)
    /\ ret = <<>>

CallParse ==
    /\ fn = "_parse_options"
    /\ ret = <<>>
    /\ ret' = Returned(_parse_options(arg))
    /\ UNCHANGED <<session_vars, fn, arg>>

SpecParse == InitParse /\ [][CallParse]_vars

InitSplit ==
    /\ SessionInit
    /\ fn = "_split_command_options"
    /\ arg \in Strings(SplitAlphabet, MaxSplitLen)
    /\ ret = <<>>

CallSplit ==
    /\ fn = "_split_command_options"
    /\ ret = <<>>
    /\ ret' = Returned(_split_command_options(arg))
    /\ UNCHANGED <<session_vars, fn, arg>>

SpecSplit == InitSplit /\ [][CallSplit]_vars

InitStrip ==
    /\ SessionInit
    /\ fn = "_strip_stata_comments"
    /\ arg \in Strings(StripAlphabet, MaxStripLen)
    /\ ret = <<>>

CallStrip ==
    /\ fn = "_strip_stata_comments"
    /\ ret = <<>>
    /\ ret' = Returned(_strip_stata_comments(arg))
    /\ UNCHANGED <<session_vars, fn, arg>>

SpecStrip == InitStrip /\ [][CallStrip]_vars

JoinAlphabet == {"a", "b", " ", "\\", "\n"}

InitJoin ==
    /\ SessionInit
    /\ fn = "processed_commands"
    /\ arg \in Strings(JoinAlphabet, MaxJoinLen)
    /\ ret = <<>>

Min(S) == CHOOSE i \in S : \A j \in S : i <= j

(***************************************************************************)
(* The command registry (src/main.py 633-714): the dict literal as its     *)
(* entries in source order; a later entry of a key replaces an earlier one.*)
(***************************************************************************)
RegistryEntries ==
    << <<"use", "cmd_use">>, <<"save", "cmd_save">>,
       <<"import", "cmd_import">>, <<"export", "cmd_export">>,
       <<"describe", "cmd_describe">>, <<"codebook", "cmd_codebook">>,
       <<"browse", "lambda_open_data_browser">>,
       <<"bro", "lambda_open_data_browser">>,
       <<"reghdfe", "translate_reghdfe">>, <<"reg", "translate_reghdfe">>,
       <<"regress", "translate_reghdfe">>,
       <<"ivreghdfe", "translate_ivreghdfe">>,
       <<"ivreg", "translate_ivreghdfe">>,
       <<"ivregress", "translate_ivreghdfe">>,
       <<"summarize", "cmd_summarize">>, <<"su", "cmd_summarize">>,
       <<"tabulate", "cmd_tabulate">>, <<"histogram", "cmd_histogram">>,
       <<"graph", "cmd_graph_bar">>, <<"scatter", "cmd_scatter">>,
       <<"generate", "cmd_generate">>, <<"gen", "cmd_generate">>,
       <<"g", "cmd_generate">>, <<"replace", "cmd_replace">>,
       <<"drop", "cmd_drop">>, <<"keep", "cmd_keep">>,
       <<"rename", "cmd_rename">>, <<"ren", "cmd_rename">>,
       <<"recode", "cmd_recode">>, <<"clonevar", "cmd_clonevar">>,
       <<"label", "cmd_label_variable">>, <<"append", "cmd_append">>,
       <<"merge", "cmd_merge">>, <<"joinby", "cmd_joinby">>,
       <<"cross", "cmd_cross">>, <<"anova", "cmd_anova">>,
       <<"areg", "cmd_areg">>, <<"xtreg", "cmd_xtreg">>, <<"fe", "cmd_fe">>,
       <<"logit", "cmd_logit">>, <<"probit", "cmd_probit">>,
       <<"logistic", "cmd_logistic">>, <<"poisson", "cmd_poisson">>,
       <<"nbreg", "cmd_nbreg">>, <<"tobit", "cmd_tobit">>,
       <<"intreg", "cmd_intreg">>, <<"control_function", "cmd_ivregress">>,
       <<"xtset", "cmd_xtset">>, <<"xtlogit", "cmd_xtlogit">>,
       <<"xtprobit", "cmd_xtprobit">>, <<"xtpoisson", "cmd_xtpoisson">>,
       <<"xtabond", "cmd_xtabond">>, <<"xtdpdsys", "cmd_xtdpdsys">>,
       <<"tsset", "cmd_tsset">>, <<"arima", "cmd_arima">>,
       <<"arch", "cmd_arch">>, <<"var", "cmd_var">>, <<"vec", "cmd_vec">>,
       <<"newey", "cmd_newey">>, <<"binscatter", "cmd_binscatter">>,
       <<"coefplot", "cmd_coefplot">>, <<"lgraph", "cmd_lgraph">>,
       <<"hist", "cmd_hist">>, <<"do", "cmd_do">>, <<"egen", "cmd_egen">>,
       <<"estout", "cmd_estout">>, <<"eststo", "cmd_eststo">>,
       <<"esttab", "cmd_esttab">>, <<"list", "cmd_list">>,
       <<"collapse", "cmd_collapse">>, <<"reshape", "cmd_reshape">>,
       <<"sort", "cmd_sort">>, <<"edit", "cmd_edit">>, <<"bash", "cmd_bash">>,
       <<"browse", "cmd_browse">>, <<"egen", "cmd_egen">> >>

RegistryKeys == {RegistryEntries[i][1] : i \in 1..Len(RegistryEntries)}

\* variant: the first entry of a key is kept
RegistryFirstEntry(key) ==
    RegistryEntries[Min({i \in 1..Len(RegistryEntries) : RegistryEntries[i][1] = key})][2]

\* self.command_registry[key], for a key of the dict
RegistryEntry(key) ==
    LET I == {i \in 1..Len(RegistryEntries) : RegistryEntries[i][1] = key}
    IN  RegistryEntries[CHOOSE i \in I : \A j \in I : j <= i][2]

\* self.command_registry.get(cmd_name)
command_registry_get(cmd_name) ==
    IF cmd_name \in RegistryKeys THEN PyStr(RegistryEntry(cmd_name)) ELSE PyNone

(***************************************************************************)
(* Regular-expression pieces used by the handlers and by execute_command.  *)
(***************************************************************************)
WordChars ==
    {At(LowerCase, k) : k \in 1..26} \cup {At(UpperCase, k) : k \in 1..26}
    \cup {"0", "1", "2", "3", "4", "5", "6", "7", "8", "9", "_"}

\* first position at or after i that holds no character of set C
RECURSIVE SkipChars(_, _, _)
SkipChars(s, i, C) ==
    IF i <= Len(s) /\ At(s, i) \in C THEN SkipChars(s, i + 1, C) ELSE i

IsWord(s) == s # "" /\ \A i \in 1..Len(s) : At(s, i) \in WordChars

\* position of the first occurrence of character c at or after i, else Len+1
RECURSIVE FindChar(_, _, _)
FindChar(s, i, c) ==
    IF i > Len(s) \/ At(s, i) = c THEN i ELSE FindChar(s, i + 1, c)

\* \s*name\(([^)]+)\) matched at position i: <<matched, group, next position>>
MatchOption(s, i, name) ==
    LET a == SkipChars(s, i, Whitespace)
        b == a + Len(name) + 1                    \* first character of the group
        e == FindChar(s, b, ")")
    IN  IF /\ a + Len(name) <= Len(s)
           /\ SubSeq(s, a, a + Len(name)) = name \o "("
           /\ e <= Len(s)
           /\ e > b
        THEN <<TRUE, SubSeq(s, b, e - 1), e + 1>>
        ELSE <<FALSE, "", i>>

(***************************************************************************)
(* Collaborators outside the interpreter.  env says whether the delegated  *)
(* work of this submission succeeds.                                       *)
(***************************************************************************)
Envs == {"ok", "fail"}

\* names bound in the scripting context or built in
ContextNames == {"pd", "np", "sm", "plt", "gui", "_df", "print", "len", "dir"}

\* df[[column]]: a new table holding the one column
SelectColumn(df, column) ==
    [id |-> df.id + 1, columns |-> {column}, index |-> df.index,
     cells |-> [c \in {column} |-> df.cells[c]]]

\* one statement of a snippet: `1/0` raises, `_df = _df[['c']]` binds _df to
\* a new table, any other statement leaves the context as it is
PyStatement(stmt, context) ==
    LET column == SubSeq(stmt, 13, Len(stmt) - 3) IN
    IF stmt = "1/0"
    THEN [raised |-> TRUE, text |-> "division by zero", context |-> context]
    ELSE IF StartsWith(stmt, "_df = _df[['") /\ EndsWith(stmt, "']]")
    THEN IF column \in context._df.columns
         THEN [raised |-> FALSE, text |-> "",
               context |-> [context EXCEPT !._df = SelectColumn(@, column)]]
         ELSE [raised |-> TRUE,
               text |-> "\"None of [Index(['" \o column
                            \o "'], dtype='object')] are in the [columns]\"",
               context |-> context]
    ELSE [raised |-> FALSE, text |-> "", context |-> context]

\* the statements of a snippet, run in turn until one raises
RECURSIVE PyStatements(_, _)
PyStatements(stmts, context) ==
    IF stmts = <<>> THEN [raised |-> FALSE, text |-> "", context |-> context]
    ELSE LET r == PyStatement(Strip(Head(stmts)), context) IN
         IF r.raised THEN r ELSE PyStatements(Tail(stmts), r.context)

\* exec(snippet, self._python_context) under redirected output
PyExec(snippet, context, env) ==
    IF IsWord(snippet) /\ snippet \notin ContextNames
    THEN [raised |-> TRUE, text |-> "name '" \o snippet \o "' is not defined",
          context |-> context]
    ELSE IF env = "fail"
    THEN [raised |-> TRUE, text |-> "invalid syntax", context |-> context]
    ELSE PyStatements(SplitOn(snippet, ";"), context)

\* stdout + stderr of subprocess.Popen(bash_command, shell=True)
ShellOutput(bash_command, env) ==
    IF env = "fail" THEN "sh: " \o bash_command \o ": failed"
    ELSE "$(" \o bash_command \o ")"

(***************************************************************************)
(* StoredEstimates (src/main.py 3101-3143).                                *)
(***************************************************************************)
\* variant: store keeps an entry that already exists
StoreKeepingFirst(se, name, model, model_type, depvar, indepvars, options) ==
    [estimates |-> IF name \in DOMAIN se.estimates THEN se.estimates
                   ELSE DictSet(se.estimates, name,
                                [model |-> model, type |-> model_type, depvar |-> depvar,
                                 indepvars |-> indepvars,
                                 options |-> IF options = PyNone THEN EmptyDict ELSE options,
                                 stats |-> EmptyDict]),
     current_name |-> PyStr(name)]

\* StoredEstimates.store; options is a dict or None
store(se, name, model, model_type, depvar, indepvars, options) ==
    [estimates |-> DictSet(se.estimates, name,
                           [model |-> model, type |-> model_type, depvar |-> depvar,
                            indepvars |-> indepvars,
                            options |-> IF options = PyNone THEN EmptyDict ELSE options,
                            stats |-> EmptyDict]),
     current_name |-> PyStr(name)]

PyDict(d) == <<"dict", d>>

\* StoredEstimates.get: the entry, or None
get(se, name) ==
    IF name \in DOMAIN se.estimates THEN PyDict(se.estimates[name]) ELSE PyNone

\* StoredEstimates.drop
drop(se, name) ==
    [se EXCEPT !.estimates = [k \in (DOMAIN se.estimates) \ {name} |-> se.estimates[k]]]

\* StoredEstimates.clear
clear(se) == [estimates |-> EmptyDict, current_name |-> PyNone]

\* StoredEstimates.add_stat
add_stat(se, name, stat_name, value) ==
    IF name \in DOMAIN se.estimates
    THEN [se EXCEPT !.estimates[name].stats = DictSet(@, stat_name, value)]
    ELSE se

\* calls of the StoredEstimates methods on one registry
EstimateNames == {"lastreg", "m1", "m2"}
Models == {<<"results", "ols", "y", <<"x">>>>, <<"results", "iv", "y", <<"x">>>>}
StatNames == {"r2"}
StatValues == {1}
StoreMethods == {"StoredEstimates", "store", "get", "drop", "clear", "add_stat"}

InitStore ==
    /\ SessionInit
    /\ fn = "StoredEstimates"
    /\ arg = ""
    /\ ret = <<>>

Store(name, model) ==
    /\ fn \in StoreMethods
    /\ _stored_estimates' = store(_stored_estimates, name, model, model[2], model[3],
                                  model[4], PyNone)
    /\ fn' = "store"
    /\ arg' = name
    /\ ret' = Returned(PyNone)
    /\ UNCHANGED <<results_window, command_history, history_list, _df, _python_context,
                   _data_browser, _lastreg, figure, cwd, dispatch_log,
                   history_index, command_prompt>>

Get(name) ==
    /\ fn \in StoreMethods
    /\ fn' = "get"
    /\ arg' = name
    /\ ret' = Returned(get(_stored_estimates, name))
    /\ UNCHANGED session_vars

Drop(name) ==
    /\ fn \in StoreMethods
    /\ _stored_estimates' = drop(_stored_estimates, name)
    /\ fn' = "drop"
    /\ arg' = name
    /\ ret' = Returned(PyNone)
    /\ UNCHANGED <<results_window, command_history, history_list, _df, _python_context,
                   _data_browser, _lastreg, figure, cwd, dispatch_log,
                   history_index, command_prompt>>

Clear ==
    /\ fn \in StoreMethods
    /\ _stored_estimates' = clear(_stored_estimates)
    /\ fn' = "clear"
    /\ arg' = ""
    /\ ret' = Returned(PyNone)
    /\ UNCHANGED <<results_window, command_history, history_list, _df, _python_context,
                   _data_browser, _lastreg, figure, cwd, dispatch_log,
                   history_index, command_prompt>>

AddStat(name, stat_name, value) ==
    /\ fn \in StoreMethods
    /\ _stored_estimates' = add_stat(_stored_estimates, name, stat_name, value)
    /\ fn' = "add_stat"
    /\ arg' = name
    /\ ret' = Returned(PyNone)
    /\ UNCHANGED <<results_window, command_history, history_list, _df, _python_context,
                   _data_browser, _lastreg, figure, cwd, dispatch_log,
                   history_index, command_prompt>>

NextStore ==
    \/ \E name \in EstimateNames, model \in Models : Store(name, model)
    \/ \E name \in EstimateNames : Get(name)
    \/ \E name \in EstimateNames : Drop(name)
    \/ Clear
    \/ \E name \in EstimateNames, stat_name \in StatNames, value \in StatValues :
           AddStat(name, stat_name, value)

SpecStore == InitStore /\ [][NextStore]_vars

(***************************************************************************)
(* Handlers.  A handler maps the session st and the command text to        *)
(* [raised, result, st]: the value it returns (or the message of the       *)
(* exception it raises) and the session it leaves.                         *)
(***************************************************************************)
Return(st, result) == [raised |-> FALSE, result |-> result, st |-> st]
Raise(st, message) == [raised |-> TRUE, result |-> PyStr(message), st |-> st]

\* str(result)
StrOf(result) ==
    IF result = PyNone THEN "None"
    ELSE IF IsPyStr(result) THEN result[2]
    ELSE "(None, '" \o result[3] \o "')"

\* the lambda of lines 643-644, calling open_data_browser (1066-1069)
lambda_open_data_browser(st, command) ==
    Return([st EXCEPT !._data_browser = PyStr("DataBrowser")], PyNone)

\* cmd_browse (2920-2922)
cmd_browse(st, command) == Return(st, PyStr("Data browser opened"))

\* re.match of the pattern of line 747
MatchReghdfe(command) ==
    LET kwEnd   == SkipChars(command, 1, WordChars)
        depFrom == SkipChars(command, kwEnd, Whitespace)
        depEnd  == SkipChars(command, depFrom, WordChars)
        comma   == FindChar(command, depEnd, ",")
        absorb  == IF comma <= Len(command)
                   THEN MatchOption(command, comma + 1, "absorb")
                   ELSE <<FALSE, "", comma>>
        cluster == IF absorb[1] THEN MatchOption(command, absorb[3], "cluster")
                   ELSE <<FALSE, "", comma>>
    IN  [matched |-> /\ SubSeq(command, 1, kwEnd - 1) \in {"reghdfe", "reg", "regress"}
                     /\ depFrom > kwEnd
                     /\ depEnd > depFrom
                     /\ depEnd <= Len(command) /\ At(command, depEnd) \in Whitespace
                     /\ comma - depEnd >= 2,
         dep_var |-> SubSeq(command, depFrom, depEnd - 1),
         indep_vars |-> SplitWs(SubSeq(command, depEnd, comma - 1)),
         absorb_vars |-> IF absorb[1] THEN SplitWs(absorb[2]) ELSE <<>>,
         cluster_vars |-> IF cluster[1] THEN SplitWs(cluster[2]) ELSE <<>>]

Range(q) == {q[i] : i \in 1..Len(q)}

\* the first name of names that is no column ("" when all are): df[name]
\* raises KeyError(name) there
FirstMissing(names, columns) ==
    LET I == {i \in 1..Len(names) : names[i] \notin columns}
    IN  IF I = {} THEN "" ELSE names[Min(I)]

\* variant: the results are stored before the fit is known to have succeeded
ReghdfeStoringBeforeFit(st, m, env) ==
    IF ~m.matched
    THEN Return(st, PyStr("Usage: reghdfe <depvar> <indepvars> [, absorb(varlist) cluster(varlist)]"))
    ELSE LET used == <<m.dep_var>> \o m.indep_vars \o m.absorb_vars
             stored == [st EXCEPT !._stored_estimates =
                           store(st._stored_estimates, "lastreg",
                                 <<"results", "ols", m.dep_var, m.indep_vars>>,
                                 "ols", m.dep_var, m.indep_vars, PyNone),
                                  !._lastreg =
                                      <<"results", "ols", m.dep_var, m.indep_vars>>]
         IN  IF FirstMissing(used, st._df.columns) # ""
             THEN Return(st, PyStr("Error: '" \o FirstMissing(used, st._df.columns) \o "'"))
             ELSE IF env = "fail"
             THEN Return(stored, PyStr("Error: fit failed"))
             ELSE Return(stored, PyStr("Linear regression (reghdfe style)"))

\* translate_reghdfe from its match object on (749-843)
reghdfe_from_match(st, m, env) ==
    IF ~m.matched
    THEN Return(st, PyStr("Usage: reghdfe <depvar> <indepvars> [, absorb(varlist) cluster(varlist)]"))
    ELSE LET used == <<m.dep_var>> \o m.indep_vars \o m.absorb_vars
         IN  IF FirstMissing(used, st._df.columns) # ""
             THEN Return(st, PyStr("Error: '" \o FirstMissing(used, st._df.columns) \o "'"))
             ELSE IF env = "fail"
             THEN Return(st, PyStr("Error: fit failed"))
             ELSE Return([st EXCEPT !._stored_estimates =
                                store(st._stored_estimates, "lastreg",
                                      <<"results", "ols", m.dep_var, m.indep_vars>>,
                                      "ols", m.dep_var, m.indep_vars, PyNone),
                                    !._lastreg =
                                      <<"results", "ols", m.dep_var, m.indep_vars>>],
                         PyStr("Linear regression (reghdfe style)"))

\* translate_reghdfe (744-843)
translate_reghdfe(st, command, env) == reghdfe_from_match(st, MatchReghdfe(command), env)

\* re.match of the pattern of line 848
MatchIvreghdfe(command) ==
    LET kw      == "ivreghdfe"
        depFrom == SkipChars(command, Len(kw) + 1, Whitespace)
        depEnd  == SkipChars(command, depFrom, WordChars)
        open    == SkipChars(command, depEnd, Whitespace)
        endEnd  == SkipChars(command, open + 1, WordChars)
        eq      == SkipChars(command, endEnd, Whitespace)
        insFrom == SkipChars(command, eq + 1, Whitespace)
        insEnd  == SkipChars(command, insFrom, WordChars)
        exoFrom == SkipChars(command, insEnd + 1, Whitespace)
        exoEnd  == SkipChars(command, exoFrom, WordChars)
        hasExog == exoFrom > insEnd + 1 /\ exoEnd > exoFrom
        after   == IF hasExog THEN exoEnd ELSE insEnd + 1
        absorb  == IF after <= Len(command) /\ At(command, after) = ","
                   THEN MatchOption(command, after + 1, "absorb")
                   ELSE <<FALSE, "", after>>
    IN  [matched |-> /\ StartsWith(command, kw)
                     /\ depFrom > Len(kw) + 1
                     /\ depEnd > depFrom
                     /\ open > depEnd
                     /\ open <= Len(command) /\ At(command, open) = "("
                     /\ endEnd > open + 1
                     /\ eq <= Len(command) /\ At(command, eq) = "="
                     /\ insEnd > insFrom
                     /\ insEnd <= Len(command) /\ At(command, insEnd) = ")",
         dep_var |-> SubSeq(command, depFrom, depEnd - 1),
         endog_var |-> SubSeq(command, open + 1, endEnd - 1),
         instrument |-> SubSeq(command, insFrom, insEnd - 1),
         exog_var |-> IF hasExog THEN <<SubSeq(command, exoFrom, exoEnd - 1)>> ELSE <<>>,
         absorb_vars |-> IF absorb[1] THEN SplitWs(absorb[2]) ELSE <<>>]

\* translate_ivreghdfe from its match object on (850-1003)
ivreghdfe_from_match(st, m, env) ==
    IF ~m.matched
    THEN Return(st, <<"tuple", "None", "Invalid ivreghdfe command format">>)
    ELSE LET used == <<m.dep_var, m.endog_var, m.instrument>> \o m.exog_var
         IN  IF FirstMissing(m.absorb_vars, st._df.columns) # ""
             THEN Raise(st, "'" \o FirstMissing(m.absorb_vars, st._df.columns) \o "'")
             ELSE IF FirstMissing(used, st._df.columns) # ""
             THEN Return(st, PyStr("Error: '" \o FirstMissing(used, st._df.columns) \o "'"))
             ELSE IF env = "fail"
             THEN Return(st, PyStr("Error: fit failed"))
             ELSE Return([st EXCEPT !._stored_estimates =
                                store(st._stored_estimates, "lastreg",
                                      <<"results", "iv", m.dep_var, <<m.endog_var>> \o m.exog_var>>,
                                      "iv", m.dep_var, <<m.endog_var>> \o m.exog_var,
                                      PyNone),
                                    !._lastreg =
                                      <<"results", "iv", m.dep_var, <<m.endog_var>> \o m.exog_var>>],
                         PyStr("Instrumental variables (2SLS) regression"))

\* translate_ivreghdfe (845-1003)
translate_ivreghdfe(st, command, env) ==
    ivreghdfe_from_match(st, MatchIvreghdfe(command), env)

\* parse_command (733-742): the main part before the first comma
parse_command_main(command) == Strip(SplitOn(command, ",")[1])

RECURSIVE RStripChar(_, _)
RStripChar(s, c) ==
    IF s # "" /\ At(s, Len(s)) = c THEN RStripChar(SubSeq(s, 1, Len(s) - 1), c) ELSE s

\* cmd_summarize (1173-1183)
cmd_summarize(st, command) ==
    LET parts   == SplitWs(parse_command_main(command))
        varlist == [i \in 1..(Len(parts) - 1) |-> RStripChar(parts[i + 1], ",")]
    IN  IF Len(parts) > 1
        THEN IF FirstMissing(varlist, st._df.columns) # ""
             THEN Raise(st, "\"['" \o FirstMissing(varlist, st._df.columns) \o "'] not in index\"")
             ELSE Return(st, PyStr("Summary statistics\n" \o JoinWith(varlist, " ")))
        ELSE Return(st, PyStr("Summary statistics\n<all columns>"))

\* eval(expr, safe_dict) succeeds: the expressions of the model are a column
\* name or a number
Digits == {"0", "1", "2", "3", "4", "5", "6", "7", "8", "9"}
ExprEvaluates(expr, columns) ==
    expr # "" /\ (expr \in columns \/ \A i \in 1..Len(expr) : At(expr, i) \in Digits)

\* int(s) for a string of digits
RECURSIVE IntOf(_)
IntOf(s) ==
    IF s = "" THEN 0
    ELSE 10 * IntOf(SubSeq(s, 1, Len(s) - 1))
           + (CHOOSE d \in 0..9 : At("0123456789", d + 1) = At(s, Len(s)))

IsInt(s) == s # "" /\ \A i \in 1..Len(s) : At(s, i) \in Digits

\* the value eval(expr, safe_dict) gives
ExprValue(expr, df) == IF expr \in df.columns THEN df.cells[expr] ELSE IntOf(expr)

\* cmd_generate (1466-1560), for expressions without lag operator or function
cmd_generate(st, command, env) ==
    LET parts  == SplitOn(command, "=")
        lhs    == SplitWs(Strip(parts[1]))
        newvar == lhs[Len(lhs)]
        expr   == Strip(SubSeq(command, Len(parts[1]) + 2, Len(command)))
    IN  IF Len(parts) < 2 THEN Return(st, PyStr("Usage: generate <newvar> = <expression>"))
        ELSE IF lhs = <<>> THEN Raise(st, "list index out of range")
        ELSE IF env = "fail" \/ ~ExprEvaluates(expr, st._df.columns)
        THEN Return(st, PyStr("Error generating variable: name '" \o expr \o "' is not defined"))
        ELSE Return([st EXCEPT !._df.columns = @ \cup {newvar},
                               !._df.cells = (newvar :> ExprValue(expr, st._df)) @@ @],
                    PyStr("Generated new variable: " \o newvar))

\* self._df.rename(columns={oldvar: newvar}, inplace=True), line 1604
RenameColumn(df, oldvar, newvar) ==
    IF oldvar \notin df.columns THEN df
    ELSE LET columns == (df.columns \ {oldvar}) \cup {newvar} IN
         [df EXCEPT !.columns = columns,
                    !.cells = [c \in columns |-> IF c = newvar THEN df.cells[oldvar]
                                                 ELSE df.cells[c]]]

\* s.strip(chars)
RECURSIVE StripChars(_, _)
StripChars(s, chars) ==
    IF s # "" /\ At(s, 1) \in chars THEN StripChars(SubSeq(s, 2, Len(s)), chars)
    ELSE IF s # "" /\ At(s, Len(s)) \in chars
    THEN StripChars(SubSeq(s, 1, Len(s) - 1), chars)
    ELSE s

\* cmd_rename (1598-1606)
cmd_rename(st, command) ==
    LET parts == SplitWs(command) IN
    IF Len(parts) < 3 THEN Return(st, PyStr("Usage: rename <oldvar> <newvar>"))
    ELSE Return([st EXCEPT !._df = RenameColumn(@, parts[2], parts[3])],
                PyStr("Renamed " \o parts[2] \o " to " \o parts[3]))

\* one rule of cmd_recode (lines 1615-1617) applied to column var
RecodeRule(st, var, recode) ==
    LET sides == SplitOn(StripChars(recode, {"(", ")"}), "=") IN
    IF Len(sides) < 2
    THEN Raise(st, "not enough values to unpack (expected 2, got 1)")
    ELSE IF Len(sides) > 2
    THEN Raise(st, "too many values to unpack (expected 2)")
    ELSE IF var \notin st._df.columns THEN Raise(st, "'" \o var \o "'")
    ELSE IF ~IsInt(sides[1])
    THEN Raise(st, "invalid literal for int() with base 10: '" \o sides[1] \o "'")
    ELSE IF ~IsInt(sides[2])
    THEN Raise(st, "invalid literal for int() with base 10: '" \o sides[2] \o "'")
    ELSE Return([st EXCEPT !._df.cells[var] =
                     IF @ = IntOf(sides[1]) THEN IntOf(sides[2]) ELSE @],
                PyNone)

\* the loop of lines 1614-1617
RECURSIVE RecodeRules(_, _, _)
RecodeRules(st, var, recodes) ==
    IF recodes = <<>> THEN Return(st, PyStr("Recoded variable: " \o var))
    ELSE LET r == RecodeRule(st, var, Head(recodes)) IN
         IF r.raised THEN r ELSE RecodeRules(r.st, var, Tail(recodes))

\* cmd_recode (1608-1618)
cmd_recode(st, command) ==
    LET parts == SplitWs(command) IN
    IF Len(parts) < 3
    THEN Return(st, PyStr("Usage: recode <var> (<old1>=<new1>) [(<old2>=<new2>) ...]"))
    ELSE RecodeRules(st, parts[2], SubSeq(parts, 3, Len(parts)))

\* self._df.reset_index(inplace=True) and the drop of 'index' (2157-2159):
\* the index levels become columns again
ResetIndex(df) ==
    LET names   == {df.index[i][1] : i \in 1..Len(df.index)}
        level   == [n \in names |->
                       df.index[CHOOSE i \in 1..Len(df.index) : df.index[i][1] = n][2]]
        added   == IF df.index # <<>> THEN names
                   ELSE IF "index" \in df.columns THEN {"level_0"} ELSE {}
        columns == (df.columns \cup added) \ {"index"}
    IN  [df EXCEPT !.columns = columns,
                   !.index = <<>>,
                   !.cells = [c \in columns |-> IF c \in names THEN level[c]
                                                ELSE IF c \in df.columns THEN df.cells[c]
                                                ELSE 0]]

\* the copies of lines 2176-2178 and 2194-2195 moved into the index
SetIndex(df, names, copied) ==
    [df EXCEPT !.columns = @ \ Range(names),
               !.index = [i \in 1..Len(names) |-> <<names[i], df.cells[copied[i]]>>],
               !.cells = [c \in df.columns \ Range(names) |-> df.cells[c]]]

\* cmd_tsset (2142-2197)
cmd_tsset(st, command) ==
    LET parts == SplitWs(command)
        names == {st._df.index[i][1] : i \in 1..Len(st._df.index)}
        st1   == [st EXCEPT !._df = ResetIndex(@)]
    IN  IF Len(parts) < 2
        THEN IF Len(st._df.index) = 2
             THEN Return(st, PyStr("Panel variable: " \o st._df.index[1][1]
                                       \o "\nTime variable: " \o st._df.index[2][1]))
             ELSE Return(st, PyStr("No time series settings"))
        ELSE IF names \cap st._df.columns # {}
        THEN Raise(st, "cannot insert "
                           \o (CHOOSE n \in names \cap st._df.columns : TRUE)
                           \o ", already exists")
        ELSE IF Len(parts) = 3
        THEN IF parts[2] \notin st1._df.columns
             THEN Return(st1, PyStr("Error: Panel variable '" \o parts[2] \o "' not found"))
             ELSE IF parts[3] \notin st1._df.columns
             THEN Return(st1, PyStr("Error: Time variable '" \o parts[3] \o "' not found"))
             ELSE Return([st1 EXCEPT !._df = SetIndex(@, <<"firm_idx", "year_idx">>,
                                                      <<parts[2], parts[3]>>)],
                         PyStr("Panel data set with panel variable " \o parts[2]
                                   \o " and time variable " \o parts[3]))
        ELSE IF parts[2] \notin st1._df.columns
             THEN Return(st1, PyStr("Error: Time variable '" \o parts[2] \o "' not found"))
             ELSE Return([st1 EXCEPT !._df = SetIndex(@, <<"year_idx">>, <<parts[2]>>)],
                         PyStr("Time series data set with time variable " \o parts[2]))

\* str(n) for a natural number n
RECURSIVE NatStr(_)
NatStr(n) ==
    IF n < 10 THEN SubSeq("0123456789", n + 1, n + 1)
    ELSE NatStr(n \div 10) \o NatStr(n % 10)

\* str(model.summary()) of a fitted model
Summary(model) == "summary(" \o model[2] \o " " \o model[3] \o ")"

\* cmd_estout (2533-2593), for commands without a using option
cmd_estout(st, command, env) ==
    LET parts == SplitWs(command)
        estimate_names == SelectSeq(Tail(parts), LAMBDA part : ~StartsWith(part, ","))
        estimates == st._stored_estimates.estimates
        output == [i \in 1..(2 * Len(estimate_names)) |->
                      IF i % 2 = 1
                      THEN "\nEstimate " \o estimate_names[(i + 1) \div 2] \o ":"
                      ELSE Summary(estimates[estimate_names[i \div 2]].model)]
    IN  IF Len(parts) < 2
        THEN Return(st, PyStr("Error: estout requires at least one estimate name"))
        ELSE IF FirstMissing(estimate_names, DOMAIN estimates) # ""
        THEN Return(st, PyStr("Error: Estimate '"
                              \o FirstMissing(estimate_names, DOMAIN estimates)
                              \o "' not found"))
        ELSE IF env = "fail" THEN Raise(st, "cmd_estout: summary failed")
        ELSE Return(st, PyStr(JoinWith(output, "\n")))

\* cmd_eststo (2595-2625)
cmd_eststo(st, command) ==
    LET main_part == Strip(SplitOn(command, ",")[1])
        options == IF Contains(command, ",")
                   THEN _parse_options(Strip(SubSeq(command,
                                                    Len(SplitOn(command, ",")[1]) + 2,
                                                    Len(command))))
                   ELSE EmptyDict
        name == IF Len(SplitWs(main_part)) > 1
                THEN SplitWs(main_part)[2]
                ELSE "est_" \o NatStr(Cardinality(DOMAIN st._stored_estimates.estimates) + 1)
    IN  IF st._lastreg = PyNone
        THEN Return(st, PyStr("Error: No estimation results to store. Run a regression first."))
        ELSE Return([st EXCEPT !._stored_estimates =
                        store(@, name, st._lastreg, "unknown", "unknown", <<>>, options)],
                    PyStr("Estimate stored as '" \o name \o "'"))

\* cmd_esttab (2627-2769): the names are resolved as in the source, the table
\* is left to the collaborator
cmd_esttab(st, command, env) ==
    LET parts == SplitWs(SplitOn(command, ",")[1])
        estimates == st._stored_estimates.estimates
    IN  IF Len(parts) <= 1 /\ DOMAIN estimates = {}
        THEN Return(st, PyStr("Error: No estimates to display. Run regressions and store them with eststo first."))
        ELSE IF FirstMissing(Tail(parts), DOMAIN estimates) # ""
        THEN Return(st, PyStr("Error: Estimate '"
                              \o FirstMissing(Tail(parts), DOMAIN estimates)
                              \o "' not found"))
        ELSE IF env = "fail" THEN Raise(st, "cmd_esttab: table failed")
        ELSE Return(st, PyStr("esttab(" \o command \o ")"))

\* cmd_coefplot (2803-2837)
cmd_coefplot(st, command, env) ==
    LET parts == SplitWs(command)
        estimates == st._stored_estimates.estimates
        named == SelectSeq(Tail(parts),
                           LAMBDA part : ~Contains(part, "=") /\ ~Contains(part, "("))
        model_names == IF named # <<>> THEN named
                       ELSE IF st._stored_estimates.current_name = PyNone
                       THEN <<"lastreg">>
                       ELSE <<st._stored_estimates.current_name[2]>>
        found == SelectSeq(model_names, LAMBDA name : name \in DOMAIN estimates)
    IN  IF found = <<>>
        THEN Return(st, PyStr("No stored models found. Run regressions first."))
        ELSE IF env = "fail" THEN Raise(st, "cmd_coefplot: plotting failed")
        ELSE Return([st EXCEPT !.figure =
                        [i \in 1..Len(found) |-> <<model_names[i], estimates[found[i]].model>>]],
                    PyStr("Coefficient plot displayed."))

\* a handler that hands the command to the statistics, plotting or data
\* collaborator: only the outcome of the delegated call is modelled
Delegated(handler, st, command, env) ==
    IF env = "fail" THEN Raise(st, handler \o ": delegated call failed")
    ELSE Return(st, PyStr(handler \o "(" \o command \o ")"))

\* handler(exec_command), for the handler name found in the registry
CallHandler(handler, st, command, env) ==
    CASE handler = "lambda_open_data_browser" -> lambda_open_data_browser(st, command)
      [] handler = "cmd_browse" -> cmd_browse(st, command)
      [] handler = "translate_reghdfe" -> translate_reghdfe(st, command, env)
      [] handler = "translate_ivreghdfe" -> translate_ivreghdfe(st, command, env)
      [] handler = "cmd_summarize" -> cmd_summarize(st, command)
      [] handler = "cmd_generate" -> cmd_generate(st, command, env)
      [] handler = "cmd_rename" -> cmd_rename(st, command)
      [] handler = "cmd_recode" -> cmd_recode(st, command)
      [] handler = "cmd_tsset" -> cmd_tsset(st, command)
      [] handler = "cmd_estout" -> cmd_estout(st, command, env)
      [] handler = "cmd_eststo" -> cmd_eststo(st, command)
      [] handler = "cmd_esttab" -> cmd_esttab(st, command, env)
      [] handler = "cmd_coefplot" -> cmd_coefplot(st, command, env)
      [] OTHER -> Delegated(handler, st, command, env)

(***************************************************************************)
(* StatacondaGUI.execute_command (src/main.py 2933-3077).                  *)
(***************************************************************************)
\* lines 2939-2955: the logical commands of the prompt text
RECURSIVE JoinContinuations(_, _)
JoinContinuations(raw_commands, current_cmd) ==
    IF raw_commands = <<>>
    THEN IF current_cmd # <<>> THEN <<JoinWith(current_cmd, " ")>> ELSE <<>>
    ELSE LET cmd == Head(raw_commands) IN
         IF EndsWith(cmd, "\\")
         THEN JoinContinuations(Tail(raw_commands),
                                Append(current_cmd, Strip(SubSeq(cmd, 1, Len(cmd) - 1))))
         ELSE <<JoinWith(Append(current_cmd, cmd), " ")>>
                  \o JoinContinuations(Tail(raw_commands), <<>>)

\* variant: every non-blank line is a command of its own
ProcessedLineByLine(command) ==
    LET lines == SplitOn(command, "\n")
        keep  == SelectSeq(lines, LAMBDA l : Strip(l) # "")
    IN  [i \in 1..Len(keep) |-> Strip(keep[i])]

processed_commands(command) ==
    LET lines == SplitOn(command, "\n")
        keep  == SelectSeq(lines, LAMBDA l : Strip(l) # "")
    IN  JoinContinuations([i \in 1..Len(keep) |-> Strip(keep[i])], <<>>)

\* re.match(r'^by[s]?\s+([\w\s]+):\s*(.+)$', cmd), line 2968
by_match(cmd) ==
    LET kw     == IF StartsWith(cmd, "bys") THEN "bys" ELSE "by"
        colon  == FindChar(cmd, 1, ":")
        group1 == SubSeq(cmd, Len(kw) + 1, colon - 1)
        group2 == SubSeq(cmd, colon + 1, Len(cmd))
    IN  [matched |-> /\ StartsWith(cmd, "by")
                     /\ colon <= Len(cmd)
                     /\ Len(group1) >= 2
                     /\ At(group1, 1) \in Whitespace
                     /\ \A i \in 1..Len(group1) : At(group1, i) \in WordChars \cup Whitespace
                     /\ group2 # "",
         by_vars |-> Strip(group1),
         inner_cmd |-> Strip(group2)]

\* lines 2967-2982: the command after the by-prefix rewrite
RewriteByPrefix(cmd) ==
    LET m == by_match(cmd) IN
    IF ~m.matched THEN cmd
    ELSE IF StartsWith(Lower(m.inner_cmd), "egen ") /\ ~Contains(m.inner_cmd, ", by(")
         THEN IF Contains(m.inner_cmd, ",")
              THEN m.inner_cmd \o " by(" \o m.by_vars \o ")"
              ELSE m.inner_cmd \o ", by(" \o m.by_vars \o ")"
         ELSE m.inner_cmd

\* directories os.chdir can enter
Directories == {"data"}

\* variant: the keyword is looked up as typed
KeywordAsTyped(exec_command) == SplitWs(exec_command)[1]

\* line 3042: cmd_name
CommandName(exec_command) == Lower(SplitWs(exec_command)[1])

Echo(st, text) == [st EXCEPT !.results_window = Append(@, text)]

Logged(st, cmd, exec_command, route, handler, result, error) ==
    [st EXCEPT !.dispatch_log =
        Append(@, [cmd |-> cmd, exec_command |-> exec_command, route |-> route,
                   handler |-> handler, result |-> result, error |-> error])]

\* lines 3003-3012 and 3054-3067: what exec leaves on the given route
ExecOutcome(st, cmd, exec_command, route, r) ==
    IF r.raised
    THEN Logged(Echo([st EXCEPT !._python_context = r.context], "Error: " \o r.text),
                cmd, exec_command, route, PyNone, "Error: " \o r.text, TRUE)
    ELSE Logged(Echo([st EXCEPT !._python_context = r.context,
                                !._df = r.context._df], r.text),
                cmd, exec_command, route, PyNone, r.text, FALSE)

\* the scripting context sees what a handler did in place to the table its
\* _df entry is bound to
SeenFromContext(st) ==
    [st EXCEPT !._python_context._df = IF @.id = st._df.id THEN st._df ELSE @]

\* lines 3045-3050 and 3068-3071: what the handler's call leaves
HandlerOutcome(st, cmd, exec_command, handler, r) ==
    IF r.raised
    THEN Logged(Echo(SeenFromContext(r.st), "Error: " \o StrOf(r.result)),
                cmd, exec_command, "handler", handler,
                "Error: " \o StrOf(r.result), TRUE)
    ELSE Logged(Echo([r.st EXCEPT !._python_context._df = r.st._df],
                     StrOf(r.result)),
                cmd, exec_command, "handler", handler, StrOf(r.result), FALSE)

\* lines 3043-3067: the registry handler when there is one, else exec
Lookup(st, cmd, exec_command, handler, env) ==
    IF handler # PyNone
    THEN HandlerOutcome(st, cmd, exec_command, handler,
                        CallHandler(handler[2], st, exec_command, env))
    ELSE ExecOutcome(st, cmd, exec_command, "fallback",
                     PyExec(exec_command, st._python_context, env))

\* lines 2990-3071: the route taken for a non-empty exec_command
Dispatch(st, cmd, exec_command, env) ==
    IF StartsWith(exec_command, "!") THEN
        LET output == ShellOutput(Strip(SubSeq(exec_command, 2, Len(exec_command))), env)
        IN  Logged(Echo(st, output), cmd, exec_command, "shell", PyNone, output, FALSE)
    ELSE IF StartsWith(exec_command, ">") THEN
        ExecOutcome(st, cmd, exec_command, "python",
                    PyExec(Strip(SubSeq(exec_command, 2, Len(exec_command))),
                           st._python_context, env))
    ELSE IF StartsWith(exec_command, "bash ") THEN
        LET output == ShellOutput(SubSeq(exec_command, 6, Len(exec_command)), env)
        IN  Logged(Echo(st, output), cmd, exec_command, "shell", PyNone, output, FALSE)
    ELSE IF StartsWith(exec_command, "cd ") THEN
        LET directory == Strip(SubSeq(exec_command, 4, Len(exec_command)))
        IN  IF directory \in Directories /\ env = "ok"
            THEN Logged(Echo([st EXCEPT !.cwd = directory],
                             "Changed directory to " \o directory),
                        cmd, exec_command, "cd", PyNone,
                        "Changed directory to " \o directory, FALSE)
            ELSE Logged(Echo(st, "Error changing directory: " \o directory),
                        cmd, exec_command, "cd", PyNone,
                        "Error changing directory: " \o directory, TRUE)
    ELSE IF exec_command \in {"pwd", "ls"} THEN
        LET output == ShellOutput(exec_command, env)
        IN  Logged(Echo(st, output), cmd, exec_command, "shell", PyNone, output, FALSE)
    ELSE
        Lookup(st, cmd, exec_command, command_registry_get(CommandName(exec_command)), env)

\* lines 2967-2985: exec_command, the text handed to the dispatch
ExecCommand(cmd) == _strip_stata_comments(RewriteByPrefix(cmd))

\* variant: the history records the text handed to the dispatch
ProcessCommandRecordingExecCommand(st, cmd, env) ==
    LET exec_command == ExecCommand(cmd)
        st1 == [Echo(st, cmd) EXCEPT !.command_history = Append(@, exec_command),
                                     !.history_list = Append(@, exec_command)]
    IN  IF exec_command = ""
        THEN Logged(st1, cmd, exec_command, "dropped", PyNone, "", FALSE)
        ELSE Echo(Dispatch(st1, cmd, exec_command, env), "")

\* lines 2958-3074: one iteration of the loop over the logical commands
ProcessCommand(st, cmd, env) ==
    LET st1 == [Echo(st, cmd) EXCEPT !.command_history = Append(@, cmd),
                                     !.history_list = Append(@, cmd)]
        exec_command == ExecCommand(cmd)
    IN  IF exec_command = ""
        THEN Logged(st1, cmd, exec_command, "dropped", PyNone, "", FALSE)
        ELSE Echo(Dispatch(st1, cmd, exec_command, env), "")

\* variant: the loop ends at the first command that raises
RECURSIVE RunCommandsUntilError(_, _, _)
RunCommandsUntilError(st, cmds, env) ==
    IF cmds = <<>> THEN st
    ELSE LET st1 == ProcessCommand(st, Head(cmds), env) IN
         IF st1.dispatch_log[Len(st1.dispatch_log)].error THEN st1
         ELSE RunCommandsUntilError(st1, Tail(cmds), env)

\* variant: the later commands of the block run before the earlier ones
RECURSIVE RunCommandsNewestFirst(_, _, _)
RunCommandsNewestFirst(st, cmds, env) ==
    IF cmds = <<>> THEN st
    ELSE ProcessCommand(RunCommandsNewestFirst(st, Tail(cmds), env), Head(cmds), env)

\* the loop of lines 2958-3074
RECURSIVE RunCommands(_, _, _)
RunCommands(st, cmds, env) ==
    IF cmds = <<>> THEN st
    ELSE RunCommands(ProcessCommand(st, Head(cmds), env), Tail(cmds), env)

\* the session as one value
Session ==
    [results_window |-> results_window, command_history |-> command_history,
     history_list |-> history_list, _df |-> _df, _python_context |-> _python_context,
     _stored_estimates |-> _stored_estimates, _data_browser |-> _data_browser,
     _lastreg |-> _lastreg, figure |-> figure,
     cwd |-> cwd, dispatch_log |-> dispatch_log]

\* lines 2934-2955 on the prompt text arg
CallJoin ==
    /\ fn = "processed_commands"
    /\ ret = <<>>
    /\ ret' = Returned(processed_commands(Strip(arg)))
    /\ UNCHANGED <<session_vars, fn, arg>>

SpecJoin == InitJoin /\ [][CallJoin]_vars

\* logical commands with and without a by-prefix, a grouping option and a
\* trailing comment
ByPrefixes == {"", "by g: ", "bys g h: ", "by g:"}
InnerCommands ==
    {"egen m = mean(x)", "EGEN m = mean(x)", "egen m = mean(x), missing",
     "egen m = f(x, y)", "egen m = mean(x), by(g)", "egen m = mean(x),by(g)",
     "egen m = mean(x), missing by(g)", "list", "list, clean", "su x"}
Notes == {"", " // note"}
LogicalCommands == {p \o c \o n : p \in ByPrefixes, c \in InnerCommands, n \in Notes}

InitBy ==
    /\ SessionInit
    /\ fn = "exec_command"
    /\ arg \in LogicalCommands
    /\ ret = <<>>

\* lines 2967-2985 on the logical command arg
CallBy ==
    /\ fn = "exec_command"
    /\ ret = <<>>
    /\ ret' = Returned(ExecCommand(arg))
    /\ UNCHANGED <<session_vars, fn, arg>>

SpecBy == InitBy /\ [][CallBy]_vars

\* texts the user submits from the command prompt
PromptTexts ==
    {"", "cd", "cd data", "cd nowhere", "!ls", "bash ls", "pwd", "> x = 1",
     "list", "LIST x", "var y", "import z", "x = 1", "foo",
     "bro", "browse", "su x", "gen z = x", "ren x w", "reg y x",
     "ivreg y (x = x)", "ivreghdfe y (x = x)",
     "* note", "// note", "su x // note", "by g: list", "su \\\nx",
     "coefplot", "estout", "estout lastreg", "eststo m1",
     "coefplot lastreg m2", "estout lastreg m2", "esttab lastreg m2",
     "reg y q", "regress y",
     "tsset x", "tsset q", "recode x (1=2)", "recode x (1=2) (a=b)",
     "> _df = _df[['x']]", "> _df = _df[['x']]; 1/0"}

\* the fields of self are those of st once the call has run
FieldsBecome(st) ==
        /\ results_window' = st.results_window
        /\ command_history' = st.command_history
        /\ history_list' = st.history_list
        /\ _df' = st._df
        /\ _python_context' = st._python_context
        /\ _stored_estimates' = st._stored_estimates
        /\ _data_browser' = st._data_browser
        /\ _lastreg' = st._lastreg
        /\ figure' = st.figure
        /\ cwd' = st.cwd
        /\ dispatch_log' = st.dispatch_log

\* execute_command has run to its last line (3077), leaving st
Becomes(st) ==
        /\ FieldsBecome(st)
        /\ command_prompt' = ""
        /\ UNCHANGED <<history_index, fn, arg, ret>>

execute_command(text, env) ==
    /\ Strip(text) # ""
    /\ Becomes(RunCommands(Session, processed_commands(Strip(text)), env))

\* blocks of up to MaxBlockLen lines submitted to a fresh session
BlockCommands ==
    {"browse", "foo", "su q", "!ls", "cd nowhere", "su x // note", "* note"}
Blocks == UNION {[1..n -> BlockCommands] : n \in 1..MaxBlockLen}
BlockTexts == {JoinWith(b, "\n") : b \in Blocks}

InitBlock ==
    /\ SessionInit
    /\ fn = "execute_command"
    /\ arg \in BlockTexts
    /\ ret = <<>>

\* execute_command (2933-3077) on the block arg
CallBlock ==
    /\ fn = "execute_command"
    /\ command_history = <<>>
    /\ \E env \in Envs : execute_command(arg, env)

SpecBlock == InitBlock /\ [][CallBlock]_vars

(***************************************************************************)
(* StatacondaGUI.cmd_do (src/main.py 2392-2451).                           *)
(***************************************************************************)
\* self.stata_commands (612-625)
stata_commands ==
    {"use", "save", "import", "export", "describe", "codebook", "browse",
     "reghdfe", "ivreghdfe", "summarize", "tabulate", "histogram", "graph",
     "generate", "replace", "drop", "keep", "rename", "recode", "clonevar",
     "label", "append", "merge", "joinby", "cross", "regress", "anova",
     "areg", "xtreg", "fe", "logit", "probit", "logistic", "poisson",
     "nbreg", "tobit", "intreg", "ivregress", "ivreg2", "control_function",
     "xtset", "xtlogit", "xtprobit", "xtpoisson", "xtabond", "xtdpdsys",
     "tsset", "arima", "arch", "var", "vec", "newey", "binscatter",
     "coefplot", "lgraph", "hist", "do", "scatter",
     "sum", "reg", "gen", "g", "ren", "d", "l", "tab", "mer", "app", "coll",
     "resh", "sor", "bro", "ed", "lab", "su"}

\* cmd_bash (2904-2918)
cmd_bash(command, env) ==
    LET space == FindChar(command, 1, " ") IN
    IF space > Len(command) THEN "Usage: bash <shell command>"
    ELSE IF env = "fail" THEN "Error: " \o SubSeq(command, space + 1, Len(command)) \o ": failed"
    ELSE "$(" \o SubSeq(command, space + 1, Len(command)) \o ")"

\* names of local_namespace (2425-2431) and the built-in names
DoNamespace == {"_df", "pd", "np", "sm", "plt"}
Builtins == {"list", "print", "len", "dir"}

\* lines 2432-2442: the text eval, or else exec, of the line leaves
DoPython(cmd) ==
    LET words == SplitWs(cmd) IN
    IF IsWord(cmd)
    THEN IF cmd = "list" THEN "<class 'list'>\n"
         ELSE IF cmd \in Builtins THEN "<built-in function " \o cmd \o ">\n"
         ELSE IF cmd \in DoNamespace THEN "<" \o cmd \o ">\n"
         ELSE "Error: name '" \o cmd \o "' is not defined"
    ELSE IF Len(words) = 3 /\ IsWord(words[1]) /\ words[2] = "="
    THEN IF IsInt(words[3]) \/ words[3] \in DoNamespace THEN ""
         ELSE IF IsWord(words[3]) THEN "Error: name '" \o words[3] \o "' is not defined"
         ELSE "Error: invalid syntax (<string>, line 1)"
    ELSE "Error: invalid syntax (<string>, line 1)"

\* lines 2410-2446: the loop over the lines of the file; output holds the
\* entries appended so far
RECURSIVE DoLoop(_, _, _, _)
RECURSIVE DoHandled(_, _, _, _, _, _, _)
DoLoop(st, commands, output, env) ==
    IF commands = <<>> THEN Return(st, PyStr(JoinWith(output, "\n")))
    ELSE LET cmd     == Strip(Head(commands))
             handler == command_registry_get(CommandName(cmd))
         IN  IF cmd = "" \/ StartsWith(cmd, "*") \/ StartsWith(cmd, "//")
             THEN DoLoop(st, Tail(commands), output, env)
             ELSE IF StartsWith(cmd, "!")
             THEN DoLoop(Logged(st, cmd, cmd, "do-shell", PyStr("cmd_bash"),
                                cmd_bash(cmd, env), FALSE),
                         Tail(commands),
                         Append(output, cmd \o "\n" \o cmd_bash(cmd, env) \o "\n"), env)
             ELSE IF CommandName(cmd) \in stata_commands
             THEN IF handler # PyNone
                  THEN DoHandled(st, cmd, handler, Tail(commands), output, env,
                                 CallHandler(handler[2], st, cmd, env))
                  ELSE DoLoop(Logged(st, cmd, cmd, "do-unknown", PyNone,
                                     "Unknown command: " \o cmd, FALSE),
                              Tail(commands),
                              Append(output, cmd \o "\nUnknown command: " \o cmd \o "\n"),
                              env)
             ELSE DoLoop(Logged(st, cmd, cmd, "do-python", PyNone, DoPython(cmd), FALSE),
                         Tail(commands),
                         Append(output, cmd \o "\n" \o DoPython(cmd) \o "\n"), env)

\* lines 2419-2421 and 2450-2451: what the handler's call r leaves
DoHandled(st, cmd, handler, rest, output, env, r) ==
    IF r.raised
    THEN Return(Logged(r.st, cmd, cmd, "do-handler", handler, StrOf(r.result), TRUE),
                PyStr("Error executing do file: " \o StrOf(r.result)))
    ELSE DoLoop(Logged(r.st, cmd, cmd, "do-handler", handler, StrOf(r.result), FALSE),
                rest, Append(output, cmd \o "\n" \o StrOf(r.result) \o "\n"), env)

\* cmd_do (2392-2451); file holds the lines of the named file, None when
\* there is no such file
cmd_do(st, command, file, env) ==
    LET parts    == SplitWs(command)
        filename == IF EndsWith(parts[2], ".do") THEN parts[2] ELSE parts[2] \o ".do"
    IN  IF Len(parts) < 2 THEN Return(st, PyStr("Usage: do <filename>"))
        ELSE IF file = PyNone THEN Return(st, PyStr("Error: File " \o filename \o " not found"))
        ELSE DoLoop(st, file, <<>>, env)

\* do-files of up to MaxDoLines lines
DoLines ==
    {"* note", "// note", "browse // note", "su x", "sum x", "list",
     "egen m = mean(x)", "foo", "!ls -l"}
DoFiles == UNION {[1..n -> DoLines] : n \in 1..MaxDoLines}

InitDo ==
    /\ SessionInit
    /\ fn = "cmd_do"
    /\ arg \in DoFiles \cup {PyNone}
    /\ ret = <<>>

\* cmd_do("do f") when f.do holds the lines arg
CallDo ==
    /\ fn = "cmd_do"
    /\ ret = <<>>
    /\ \E env \in Envs :
          LET r == cmd_do(Session, "do f", arg, env) IN
          /\ ret' = Returned(r.result)
          /\ FieldsBecome(r.st)
    /\ UNCHANGED <<history_index, command_prompt, fn, arg>>

SpecDo == InitDo /\ [][CallDo]_vars

\* sessions of estimation and eststo commands, named and unnamed
EstimationCommands == {"reg y x", "ivreghdfe y (x = x)", "eststo est_3", "eststo"}

InitEst ==
    /\ SessionInit
    /\ fn = "cmd_eststo"
    /\ arg = ""
    /\ ret = <<>>

SubmitEst ==
    /\ fn = "cmd_eststo"
    /\ Len(command_history) < MaxEstSubmits
    /\ \E text \in EstimationCommands, env \in Envs : execute_command(text, env)

SpecEst == InitEst /\ [][SubmitEst]_vars

\* the session as one value, after __init__
FreshSession ==
    [results_window |-> <<>>, command_history |-> <<>>, history_list |-> <<>>,
     _df |-> InitialTable, _python_context |-> [_df |-> InitialTable],
     _stored_estimates |-> [estimates |-> EmptyDict, current_name |-> PyNone],
     _data_browser |-> PyNone, _lastreg |-> PyNone, figure |-> <<>>,
     cwd |-> "/", dispatch_log |-> <<>>]

\* the fields of self are those of st
Holds(st) ==
    /\ results_window = st.results_window
    /\ command_history = st.command_history
    /\ history_list = st.history_list
    /\ _df = st._df
    /\ _python_context = st._python_context
    /\ _stored_estimates = st._stored_estimates
    /\ _data_browser = st._data_browser
    /\ _lastreg = st._lastreg
    /\ figure = st.figure
    /\ cwd = st.cwd
    /\ dispatch_log = st.dispatch_log

\* commands run before the keys are pressed: up to MaxHistory of them
HistoryCommands == {"browse", "su x", "foo"}
Histories == UNION {[1..n -> HistoryCommands] : n \in 1..MaxHistory}

NavigationKeys == {"Up", "PageUp", "Down", "PageDown"}

InitKeys ==
    /\ \E h \in Histories : Holds(RunCommands(FreshSession, h, "ok"))
    /\ history_index = -1
    /\ command_prompt = ""
    /\ fn = "handle_key_press"
    /\ arg = ""
    /\ ret = <<>>

\* variant: Down at the most recent entry changes nothing
KeyPressStoppingAtMostRecent(key) ==
    /\ fn = "handle_key_press"
    /\ arg' = key
    /\ IF key \in {"Up", "PageUp"}
       THEN IF history_index < Len(command_history) - 1
            THEN /\ history_index' = history_index + 1
                 /\ command_prompt' = command_history[Len(command_history) - history_index']
            ELSE UNCHANGED <<history_index, command_prompt>>
       ELSE IF history_index > 0
            THEN /\ history_index' = history_index - 1
                 /\ command_prompt' = command_history[Len(command_history) - history_index']
            ELSE UNCHANGED <<history_index, command_prompt>>
    /\ UNCHANGED <<results_window, command_history, history_list, _df, _python_context,
                   _stored_estimates, _data_browser, _lastreg, figure, cwd,
                   dispatch_log, fn, ret>>

\* handle_key_press (1034-1057) for the history keys
handle_key_press(key) ==
    /\ fn = "handle_key_press"
    /\ arg' = key
    /\ IF key \in {"Up", "PageUp"}
       THEN IF history_index < Len(command_history) - 1
            THEN /\ history_index' = history_index + 1
                 /\ command_prompt' = command_history[Len(command_history) - history_index']
            ELSE UNCHANGED <<history_index, command_prompt>>
       ELSE IF history_index > 0
            THEN /\ history_index' = history_index - 1
                 /\ command_prompt' = command_history[Len(command_history) - history_index']
            ELSE IF history_index = 0
            THEN /\ history_index' = -1
                 /\ command_prompt' = ""
            ELSE UNCHANGED <<history_index, command_prompt>>
    /\ UNCHANGED <<results_window, command_history, history_list, _df, _python_context,
                   _stored_estimates, _data_browser, _lastreg, figure, cwd,
                   dispatch_log, fn, ret>>

KeyPress == \E key \in NavigationKeys : handle_key_press(key)

SpecKeys == InitKeys /\ [][KeyPress]_vars

Init ==
    /\ SessionInit
    /\ fn = ""
    /\ arg = ""
    /\ ret = <<>>

Submit ==
    /\ Len(command_history) < MaxSubmits
    /\ \E text \in PromptTexts, env \in Envs : execute_command(text, env)

Next == Submit

Spec == Init /\ [][Next]_vars

(***************************************************************************)
(* Lexical structure of a string, stated position by position.             *)
(***************************************************************************)
\* position i lies outside double quotes: an even number of quotes precede it
OutsideQuotes(s, i) == Cardinality({j \in 1..(i - 1) : At(s, j) = "\""}) % 2 = 0

\* unquoted occurrences of character c before position i
UnquotedBefore(s, i, c) ==
    Cardinality({j \in 1..(i - 1) : At(s, j) = c /\ OutsideQuotes(s, j)})

\* parenthesis depth in which the character at position i stands
DepthAt(s, i) == UnquotedBefore(s, i, "(") - UnquotedBefore(s, i, ")")

TopLevelCommas(s) ==
    {i \in 1..Len(s) : At(s, i) = "," /\ OutsideQuotes(s, i) /\ DepthAt(s, i) = 0}

\* parentheses balanced (never closing more than was opened) and quotes closed
WellFormed(s) ==
    /\ OutsideQuotes(s, Len(s) + 1)
    /\ DepthAt(s, Len(s) + 1) = 0
    /\ \A i \in 1..Len(s) : DepthAt(s, i) >= 0

(***************************************************************************)
(* Command splitter.                                                       *)
(***************************************************************************)
\* C4: _split_command_options(c) cuts c at its first comma outside double
\* quotes and at parenthesis depth 0 and returns the trimmed text before and
\* after it; without such a comma it returns (c trimmed, "").
SplitCutsAtFirstTopLevelComma ==
    (fn = "_split_command_options" /\ ret # <<>>) =>
        LET T == TopLevelCommas(arg) IN
        /\ ~ret[1].raised
        /\ IF T = {}
           THEN ret[1].value = <<Strip(arg), "">>
           ELSE ret[1].value = <<Strip(SubSeq(arg, 1, Min(T) - 1)),
                                 Strip(SubSeq(arg, Min(T) + 1, Len(arg)))>>

\* a quoted or parenthesised comma was passed over before the cut
SplitSkipsProtectedComma ==
    /\ fn = "_split_command_options"
    /\ ret # <<>>
    /\ TopLevelCommas(arg) # {}
    /\ \E i \in 1..(Min(TopLevelCommas(arg)) - 1) : At(arg, i) = ","
    /\ ret[1].value[2] # ""

(***************************************************************************)
(* Option parser.                                                          *)
(***************************************************************************)
\* positions of the top-level separators of an option clause
TopLevelSpaces(s) ==
    {i \in 1..Len(s) : At(s, i) \in Whitespace /\ OutsideQuotes(s, i) /\ DepthAt(s, i) = 0}

\* the tokens of an option clause, as <<first, last>> positions
Tokens(s) ==
    {sp \in (1..Len(s)) \X (1..Len(s)) :
        /\ sp[1] <= sp[2]
        /\ \A i \in sp[1]..sp[2] : i \notin TopLevelSpaces(s)
        /\ (sp[1] = 1 \/ (sp[1] - 1) \in TopLevelSpaces(s))
        /\ (sp[2] = Len(s) \/ (sp[2] + 1) \in TopLevelSpaces(s))}

UnquotedParens(s, sp) ==
    {i \in sp[1]..sp[2] : At(s, i) \in {"(", ")"} /\ OutsideQuotes(s, i)}

\* the token is name(value): its first parenthesis opens at depth 0 and is
\* closed by the token's last character
IsValued(s, sp) ==
    /\ UnquotedParens(s, sp) # {}
    /\ At(s, Min(UnquotedParens(s, sp))) = "("
    /\ At(s, sp[2]) = ")" /\ OutsideQuotes(s, sp[2])
    /\ \A j \in (Min(UnquotedParens(s, sp)) + 1)..sp[2] : DepthAt(s, j) >= 1
    /\ DepthAt(s, sp[2]) = 1

IsFlag(s, sp) == UnquotedParens(s, sp) = {}

TokenName(s, sp) ==
    IF IsValued(s, sp) THEN SubSeq(s, sp[1], Min(UnquotedParens(s, sp)) - 1)
    ELSE SubSeq(s, sp[1], sp[2])

TokenValue(s, sp) ==
    IF IsValued(s, sp)
    THEN PyStr(SubSeq(s, Min(UnquotedParens(s, sp)) + 1, sp[2] - 1))
    ELSE PyTrue

TokenKey(s, sp) == PyStr(Lower(TokenName(s, sp)))

\* C5: _parse_options maps every top-level token without parentheses to True
\* and every token name(value) to the text between its outer parentheses,
\* under the lower-cased name (the last token of a name wins).
ParseMapsEveryToken ==
    (fn = "_parse_options" /\ ret # <<>> /\ WellFormed(arg)) =>
        \A sp \in Tokens(arg) :
            ( /\ IsFlag(arg, sp) \/ IsValued(arg, sp)
              /\ \A later \in Tokens(arg) :
                    later[1] > sp[1] => TokenKey(arg, later) # TokenKey(arg, sp) )
            => /\ TokenKey(arg, sp) \in DOMAIN ret[1].value
               /\ ret[1].value[TokenKey(arg, sp)] = TokenValue(arg, sp)

\* the value of a valued token holds a nested parenthesis or a quote
HasNestedValue(s, sp) ==
    /\ IsValued(s, sp)
    /\ \E i \in (Min(UnquotedParens(s, sp)) + 1)..(sp[2] - 1) :
            At(s, i) \in {"(", ")", "\""}

\* C6: for a valued option whose value holds balanced nested parentheses or
\* quoted text, the stored value is exactly the raw text between the
\* option's outer parentheses.
ParseKeepsNestedValue ==
    (fn = "_parse_options" /\ ret # <<>> /\ WellFormed(arg)
        /\ <<1, Len(arg)>> \in Tokens(arg)
        /\ HasNestedValue(arg, <<1, Len(arg)>>)) =>
        ret[1].value = (TokenKey(arg, <<1, Len(arg)>>) :> TokenValue(arg, <<1, Len(arg)>>))

\* C7: an option clause with unbalanced parentheses or an unterminated quote
\* ends in a parse error, never in an option mapping.
ParseRejectsUnbalanced ==
    (fn = "_parse_options" /\ ret # <<>> /\ ~WellFormed(arg)) => ret[1].raised

\* C8: for a well-formed option clause, re-parsing name(value) for any
\* string-valued entry of the result yields exactly that entry.
ParseRoundTrip ==
    (fn = "_parse_options" /\ ret # <<>> /\ WellFormed(arg)) =>
        \A k \in DOMAIN ret[1].value :
            IsPyStr(ret[1].value[k]) =>
                _parse_options(k[2] \o "(" \o ret[1].value[k][2] \o ")")
                    = (k :> ret[1].value[k])

(***************************************************************************)
(* Comment stripping.                                                      *)
(***************************************************************************)
\* positions where an end-of-line comment marker starts outside quotes
CommentMarkers(s) ==
    {i \in 1..(Len(s) - 1) : SubSeq(s, i, i + 1) = "//" /\ OutsideQuotes(s, i)}

BeforeComment(s) ==
    IF CommentMarkers(s) = {} THEN s ELSE SubSeq(s, 1, Min(CommentMarkers(s)) - 1)

\* C9: unless its first non-blank character is `*`, a command is returned
\* truncated at its first `//` outside double quotes and trimmed; a quoted
\* `//`, a later `*` and any quote after the marker do not matter.
StripTruncatesAtUnquotedMarker ==
    (fn = "_strip_stata_comments" /\ ret # <<>> /\ ~StartsWith(Strip(arg), "*")) =>
        /\ ~ret[1].raised
        /\ ret[1].value = Strip(BeforeComment(arg))

\* a quoted `//` was kept and the command was cut at a later marker
StripKeepsQuotedMarker ==
    /\ fn = "_strip_stata_comments"
    /\ ret # <<>>
    /\ CommentMarkers(arg) # {}
    /\ Contains(BeforeComment(arg), "//")
    /\ Contains(ret[1].value, "//")

(***************************************************************************)
(* Dispatch.                                                               *)
(***************************************************************************)
LogEntries == {dispatch_log[i] : i \in 1..Len(dispatch_log)}

FirstToken(text) == IF SplitWs(text) = <<>> THEN "" ELSE SplitWs(text)[1]

\* C1: a logical command whose first token, lower-cased, is a key of the
\* command table is never run as a snippet in the scripting context; the
\* fallback is taken only for keywords the table does not hold.
TableKeywordNeverScripted ==
    \A e \in LogEntries :
        /\ Lower(FirstToken(e.cmd)) \in RegistryKeys => e.route \notin {"fallback", "python"}
        /\ Lower(FirstToken(e.exec_command)) \in RegistryKeys
                => e.route \notin {"fallback", "python"}
        /\ e.route = "fallback" => Lower(FirstToken(e.exec_command)) \notin RegistryKeys

\* a keyword that is also a Python name, typed in upper case, reached its handler
CollidingKeywordHandled ==
    \E e \in LogEntries :
        /\ FirstToken(e.cmd) \notin RegistryKeys
        /\ Lower(FirstToken(e.cmd)) \in {"var", "list", "import"}
        /\ e.route = "handler"

\* C2: every command whose first token is `cd` takes the change-directory
\* route, a bare `cd` yielding the usage message; it is never run as a
\* scripting snippet.
CdTakesChangeDirectoryRoute ==
    \A e \in LogEntries :
        FirstToken(e.exec_command) = "cd" =>
            /\ e.route = "cd"
            /\ e.exec_command = "cd" => e.result = "Usage: cd <directory>"

AliasPairs ==
    {<<"bro", "browse">>, <<"su", "summarize">>, <<"gen", "generate">>,
     <<"g", "generate">>, <<"ren", "rename">>, <<"reg", "reghdfe">>,
     <<"regress", "reghdfe">>, <<"ivreg", "ivreghdfe">>, <<"ivregress", "ivreghdfe">>}

Last(q) == q[Len(q)]

\* the session and the log entry left by one logical command
Effect(st) ==
    [handler |-> Last(st.dispatch_log).handler, result |-> Last(st.dispatch_log).result,
     error |-> Last(st.dispatch_log).error, _df |-> st._df,
     _python_context |-> st._python_context, _stored_estimates |-> st._stored_estimates,
     _data_browser |-> st._data_browser, _lastreg |-> st._lastreg,
     figure |-> st.figure, cwd |-> st.cwd]

\* C3: a command typed with an abbreviation invokes the same handler and
\* leaves the same result text and the same state changes as the same
\* command typed with the canonical keyword.
AliasConsistency ==
    [][\A text \in PromptTexts, env \in Envs, p \in AliasPairs :
            (FirstToken(text) = p[1] /\ execute_command(text, env)) =>
                Effect(ProcessCommand(Session, text, env))
                    = Effect(ProcessCommand(Session,
                                 p[2] \o SubSeq(text, Len(p[1]) + 1, Len(text)), env))]_vars

IsFullLineComment(cmd) == StartsWith(LStrip(cmd), "*") \/ StartsWith(LStrip(cmd), "//")

\* C10: a logical command that starts with `*` or `//` is dropped entirely:
\* it takes no route, reports no error and adds nothing to the result text.
FullLineCommentLeavesNothing ==
    \A e \in LogEntries :
        IsFullLineComment(e.cmd) =>
            /\ e.route = "dropped"
            /\ ~e.error
            /\ \A j \in 1..Len(results_window) : results_window[j] # e.cmd

(***************************************************************************)
(* The history of submitted commands.                                      *)
(***************************************************************************)
\* every logical command of the text is empty once its comments are stripped
AllBlank(text) ==
    \A i \in 1..Len(processed_commands(Strip(text))) :
        ExecCommand(processed_commands(Strip(text))[i]) = ""

\* C11: a logical command that is empty after comment stripping leaves no
\* history entry: command_history and the history list are unchanged by it.
BlankCommandLeavesNoHistory ==
    [][\A text \in PromptTexts, env \in Envs :
          (AllBlank(text) /\ execute_command(text, env))
              => /\ command_history' = command_history
                 /\ history_list' = history_list]_vars

\* the logical commands of each prompt text
LogicalCommandsOf == [text \in PromptTexts |-> processed_commands(Strip(text))]

\* the step echoes the first logical command of the text (line 2960)
EchoesFirst(text) ==
    /\ LogicalCommandsOf[text] # <<>>
    /\ Len(results_window') > Len(results_window)
    /\ results_window'[Len(results_window) + 1] = LogicalCommandsOf[text][1]

\* C12: every non-blank logical command submitted is appended to
\* command_history and to the history list exactly once, as typed (comment
\* included), in submission order.
\* (EchoesFirst(text) holds of every step execute_command takes on text; it
\* stands first to name the text of the step.)
HistoryKeepsCommandsAsTyped ==
    [][\A text \in PromptTexts, env \in Envs :
          (EchoesFirst(text) /\ execute_command(text, env))
              => /\ command_history' = command_history \o LogicalCommandsOf[text]
                 /\ history_list' = history_list \o LogicalCommandsOf[text]]_vars

\* a full-line comment and a command with a trailing comment, both recorded
HistoryHoldsComments == command_history = <<"* note", "su x // note">>

(***************************************************************************)
(* Continuation joining, stated on the physical lines of the block.        *)
(***************************************************************************)
\* the k-th smallest element of a set of numbers
Nth(S, k) == CHOOSE x \in S : Cardinality({y \in S : y < x}) = k - 1

\* the physical lines of a block: the text between consecutive line breaks
PhysicalLines(text) ==
    LET N == {i \in 1..Len(text) : At(text, i) = "\n"}
        from(k) == IF k = 1 THEN 1 ELSE Nth(N, k - 1) + 1
        to(k)   == IF k = Cardinality(N) + 1 THEN Len(text) ELSE Nth(N, k) - 1
    IN  [k \in 1..(Cardinality(N) + 1) |-> SubSeq(text, from(k), to(k))]

\* the non-blank physical lines, trimmed
NonBlankLines(text) ==
    LET keep == SelectSeq(PhysicalLines(text), LAMBDA l : Strip(l) # "")
    IN  [i \in 1..Len(keep) |-> Strip(keep[i])]

Marked(line) == Len(line) > 0 /\ At(line, Len(line)) = "\\"

\* the logical commands of a block: one per maximal run of non-blank lines
\* of which all but the last end with the marker
JoinedRuns(text) ==
    LET L == NonBlankLines(text)
        T == {i \in 1..Len(L) : ~Marked(L[i])} \cup (IF Len(L) > 0 THEN {Len(L)} ELSE {})
        first(k) == IF k = 1 THEN 1 ELSE Nth(T, k - 1) + 1
        piece(i) == IF Marked(L[i]) THEN Strip(SubSeq(L[i], 1, Len(L[i]) - 1)) ELSE L[i]
    IN  [k \in 1..Cardinality(T) |->
            JoinWith([j \in 1..(Nth(T, k) - first(k) + 1) |-> piece(first(k) + j - 1)], " ")]

PrefixVars(p) == IF p = "bys g h: " THEN "g h" ELSE "g"

\* the option clause of a command: the text after its first top-level comma
OptionClause(c) ==
    IF TopLevelCommas(c) = {} THEN ""
    ELSE SubSeq(c, Min(TopLevelCommas(c)) + 1, Len(c))

HasGroupingOption(c) == Contains(OptionClause(c), "by(")

\* the number of by( options in a text
GroupingOptions(c) ==
    Cardinality({i \in 1..(Len(c) - 2) : SubSeq(c, i, i + 2) = "by("})

\* the text handed to the dispatch for the logical command p \o c \o n
Dispatched(p, c, n) == fn = "exec_command" /\ arg = p \o c \o n /\ ret # <<>>

\* C14: `by <vars>: C` (or `bys <vars>: C`) with C free of a grouping
\* option is rewritten to C with by(<vars>) appended to its option clause,
\* after `, ` when C has no option clause.
ByPrefixAppendsGroupingOption ==
    \A p \in ByPrefixes \ {""}, c \in InnerCommands :
        (Dispatched(p, c, "") /\ ~HasGroupingOption(c)) =>
            ret[1].value = IF TopLevelCommas(c) = {}
                           THEN c \o ", by(" \o PrefixVars(p) \o ")"
                           ELSE c \o " by(" \o PrefixVars(p) \o ")"

\* C15: when C already has a by(...) option in its option clause, however
\* spaced, the prefix is dropped and C is dispatched unchanged, with exactly
\* one by( option.
ByPrefixKeepsExplicitGroupingOption ==
    \A p \in ByPrefixes \ {""}, c \in InnerCommands :
        (Dispatched(p, c, "") /\ HasGroupingOption(c)) =>
            /\ ret[1].value = c
            /\ GroupingOptions(ret[1].value) = 1

\* C16: whatever the keyword of C, the grouping variables of `by <vars>: C`
\* are carried into the option clause of the dispatched text.
ByPrefixRewriteIgnoresKeyword ==
    \A p \in ByPrefixes \ {""}, c \in InnerCommands :
        (Dispatched(p, c, "") /\ ~HasGroupingOption(c)) =>
            Contains(OptionClause(ret[1].value), "by(" \o PrefixVars(p) \o ")")

\* C17: comments are stripped before the group-prefix rewrite: for
\* `by g: C // note` the dispatched text has by(g) in its option clause and
\* no comment text.
CommentStrippedBeforeByRewrite ==
    \A p \in ByPrefixes \ {""}, c \in InnerCommands :
        (Dispatched(p, c, " // note") /\ ~HasGroupingOption(c)) =>
            /\ Contains(OptionClause(ret[1].value), "by(" \o PrefixVars(p) \o ")")
            /\ ~Contains(ret[1].value, "note")

(***************************************************************************)
(* The stored-estimate registry.                                           *)
(***************************************************************************)
\* C18: store(name, ...) overwrites: afterwards get(name) is the entry
\* holding the model just stored, current_name is name, and the entries
\* under all other names are unchanged.
StoreOverwrites ==
    [][\A name \in EstimateNames, model \in Models :
          Store(name, model)
              => /\ get(_stored_estimates', name) # PyNone
                 /\ get(_stored_estimates', name)[2].model = model
                 /\ _stored_estimates'.current_name = PyStr(name)
                 /\ \A other \in EstimateNames \ {name} :
                        get(_stored_estimates', other) = get(_stored_estimates, other)]_vars

\* a store has replaced the model of a name whose entry carried a statistic,
\* next to another stored name
StoredOverExisting ==
    /\ fn = "store" /\ arg = "m1"
    /\ get(_stored_estimates, "m1") # PyNone
    /\ get(_stored_estimates, "m1")[2].model[2] = "iv"
    /\ get(_stored_estimates, "lastreg") # PyNone
    /\ get(_stored_estimates, "lastreg")[2].model[2] = "ols"
    /\ "r2" \in DOMAIN get(_stored_estimates, "lastreg")[2].stats

\* the names a post-estimation command requests
RequestedNames(text) == Tail(SplitWs(text))

\* C19: after a successful estimation, `coefplot` and `estout` given no
\* estimate name resolve to the estimate named by current_name and report
\* on it instead of failing.
UnnamedPostEstimationUsesCurrent ==
    [][\A text \in {"coefplot", "estout"} :
          (_stored_estimates.current_name # PyNone /\ execute_command(text, "ok"))
              => /\ ~Last(dispatch_log').error
                 /\ ~StartsWith(Last(dispatch_log').result, "Error")
                 /\ text = "coefplot" =>
                        figure' = << <<_stored_estimates.current_name[2],
                                       get(_stored_estimates,
                                           _stored_estimates.current_name[2])[2].model>> >>
                 /\ text = "estout" =>
                        Contains(Last(dispatch_log').result,
                                 "Estimate " \o _stored_estimates.current_name[2] \o ":")]_vars

\* C20: a post-estimation call over several names of which one is not in
\* the registry fails as a whole with an error naming the missing estimate;
\* nothing is produced for the names that exist.
MissingEstimateFailsWholeCall ==
    [][\A text \in PromptTexts, env \in Envs :
          (/\ FirstToken(text) \in {"coefplot", "estout", "esttab"}
           /\ Len(RequestedNames(text)) > 1
           /\ FirstMissing(RequestedNames(text), DOMAIN _stored_estimates.estimates) # ""
           /\ execute_command(text, env))
              => /\ StartsWith(Last(dispatch_log').result, "Error")
                 /\ Contains(Last(dispatch_log').result,
                             "'" \o FirstMissing(RequestedNames(text),
                                                 DOMAIN _stored_estimates.estimates) \o "'")
                 /\ figure' = figure]_vars

(***************************************************************************)
(* Failures.                                                               *)
(***************************************************************************)
EstimationKeywords == {"reg", "regress", "reghdfe", "ivreg", "ivregress", "ivreghdfe"}

EstimationTexts == {text \in PromptTexts : FirstToken(text) \in EstimationKeywords}

\* the log entry of an estimation command that produced no estimate
EstimationFailed(e) ==
    \/ e.error
    \/ ~(\/ StartsWith(e.result, "Linear regression")
         \/ StartsWith(e.result, "Instrumental variables"))

DatasetTexts ==
    {"su x", "gen z = x", "ren x w", "reg y q", "tsset x", "tsset q",
     "recode x (1=2)", "recode x (1=2) (a=b)"}

HandlerFailed(e) == e.route = "handler" /\ (e.error \/ StartsWith(e.result, "Error"))

\* C22: a command whose handler returns or raises an error leaves the active
\* dataset exactly as it was before the command
FailedHandlerKeepsDataset ==
    [][\A text \in DatasetTexts, env \in Envs :
          (/\ EchoesFirst(text)
           /\ execute_command(text, env)
           /\ HandlerFailed(Last(dispatch_log')))
              => _df' = _df]_vars

(***************************************************************************)
(* Blocks of commands.                                                     *)
(***************************************************************************)
\* the lines a logged command leaves in the results window
ResultLines(e) == IF e.route = "dropped" THEN <<e.cmd>> ELSE <<e.cmd, e.result, "">>

RECURSIVE BlockResults(_)
BlockResults(log) ==
    IF log = <<>> THEN <<>> ELSE ResultLines(Head(log)) \o BlockResults(Tail(log))

\* where the echo of the k-th logged command stands in the results window
EchoAt(log, k) == Len(BlockResults(SubSeq(log, 1, k - 1))) + 1

IsErrorText(t) == StartsWith(t, "Error") \/ StartsWith(t, "sh: ")

CommandFailed(e) == e.error \/ (e.route = "shell" /\ StartsWith(e.result, "sh: "))

BlockKeepsOrder ==
    (fn = "execute_command" /\ command_history # <<>>) =>
        LET cmds == processed_commands(Strip(arg)) IN
        /\ command_history = cmds
        /\ history_list = cmds
        /\ [k \in 1..Len(dispatch_log) |-> dispatch_log[k].cmd] = cmds
        /\ results_window = BlockResults(dispatch_log)

\* three different commands have run from one block
ThreeCommandsInOrder ==
    /\ fn = "execute_command"
    /\ command_history = <<"browse", "su x // note", "cd nowhere">>
    /\ Len(results_window) = 9

(***************************************************************************)
(* History navigation.                                                     *)
(***************************************************************************)
Smaller(a, b) == IF a < b THEN a ELSE b
Larger(a, b) == IF a > b THEN a ELSE b

\* C25: starting from history_index = -1 with n >= 1 history entries, every
\* Up/PageUp and Down/PageDown press leaves history_index within -1..n-1;
\* Up moves one entry toward the oldest and stops there, Down moves one entry
\* toward the most recent; the prompt shows command_history[-(history_index+1)]
\* whenever history_index >= 0; Down at the most recent entry clears the
\* prompt and resets history_index to -1.
KeysNavigateHistory ==
    [][fn = "handle_key_press" =>
          LET n == Len(command_history) IN
          /\ history_index' \in -1..(n - 1)
          /\ history_index' >= 0 => command_prompt' = command_history[n - history_index']
          /\ arg' \in {"Up", "PageUp"} => history_index' = Smaller(history_index + 1, n - 1)
          /\ arg' \in {"Down", "PageDown"} =>
                /\ history_index' = Larger(history_index - 1, -1)
                /\ history_index = 0 => (command_prompt' = "" /\ history_index' = -1)]_vars

\* Down has been pressed at the most recent of three entries, after Up had
\* been pressed
PromptClearedByDown ==
    /\ fn = "handle_key_press"
    /\ Len(command_history) = 3
    /\ arg = "Down"
    /\ history_index = -1
    /\ command_prompt = ""

(***************************************************************************)
(* Do-files.                                                               *)
(***************************************************************************)
\* the text of every comment of the do-files
CommentText == "note"

DoReturned == fn = "cmd_do" /\ ret # <<>>

\* C26: running a do-file, the text of its full-line comments and of its
\* end-of-line // comments reaches no handler and is no part of the result
\* text returned for the do-file.
DoFileDropsComments ==
    DoReturned =>
        /\ ~Contains(ret[1].value[2], CommentText)
        /\ \A k \in 1..Len(dispatch_log) :
              dispatch_log[k].handler # PyNone
                  => ~Contains(dispatch_log[k].exec_command, CommentText)

\* C27: for every line of a do-file whose leading keyword is in the command
\* table, cmd_do calls the handler execute_command would call: the line is
\* neither evaluated as Python nor reported as an unknown command.
DoDispatchAgreesWithInteractive ==
    DoReturned =>
        \A k \in 1..Len(dispatch_log) :
            CommandName(dispatch_log[k].cmd) \in RegistryKeys
                => /\ dispatch_log[k].route = "do-handler"
                   /\ dispatch_log[k].handler
                          = command_registry_get(CommandName(dispatch_log[k].cmd))

(***************************************************************************)
(* The most-recent pointer of the registry.                                *)
(***************************************************************************)
\* C28: after any sequence of store, drop, clear and add_stat, current_name
\* is None or the name of an estimate that is in the registry.
CurrentNameNeverDangles ==
    fn \in StoreMethods =>
        \/ _stored_estimates.current_name = PyNone
        \/ _stored_estimates.current_name[2] \in DOMAIN _stored_estimates.estimates

(***************************************************************************)
(* Generated estimate names.                                               *)
(***************************************************************************)
\* C29: an eststo without a name stores the last result under a name that is
\* no key of the registry yet: the registry gains a key, and no estimate
\* stored before is overwritten.
UnnamedEststoTakesFreshName ==
    [][(/\ fn = "cmd_eststo"
        /\ Len(dispatch_log') = Len(dispatch_log) + 1
        /\ Last(dispatch_log').exec_command = "eststo"
        /\ StartsWith(Last(dispatch_log').result, "Estimate stored as"))
           => /\ DOMAIN _stored_estimates'.estimates # DOMAIN _stored_estimates.estimates
              /\ \A name \in DOMAIN _stored_estimates.estimates :
                    _stored_estimates'.estimates[name] = _stored_estimates.estimates[name]]_vars

(***************************************************************************)
(* The dataset of the scripting context.                                   *)
(***************************************************************************)
\* C30: after every logical command, on any route and whether it succeeded
\* or failed, the _df entry of the scripting context and the active dataset
\* are the same table.
ContextSeesActiveDataset == _python_context._df = _df

==============================================================================
